---- MODULE Spec2Model ----
(***************************************************************************)
(* Model of src/app.py: a Streamlit script that, on every run, loads the   *)
(* secrets and the topic list, replays the session transcript and, when a  *)
(* question was submitted, runs retrieve -> rerank -> generate.            *)
(*                                                                         *)
(* One script run is one action.  The vector store, the FlashRank ranker   *)
(* and the LLM chain are libraries outside the repository: each is         *)
(* modelled by the call the script makes to it and by the outcomes that    *)
(* call can have (a value, or an exception).                               *)
(***************************************************************************)
EXTENDS Integers, Sequences, FiniteSets, TLC

\* ---------------------------------------------------------------- bounds
NumChunks == 6
MaxTurns == 2
MaxCalls == 2

\* ------------------------------------------------------ program constants
\* app.py:117  search_kwargs = {"k": 25}
K == 25
\* app.py:55   reranked_results[:5]
TopN == 5
\* app.py:127  "\n\n---\n\n".join(...)
SEP == "\n\n---\n\n"
\* app.py:125
NoResultsMessage ==
    "I could not find relevant information for that specific topic. Please try another search or select 'All' from the dropdown."

\* a local name that was never assigned (Python: unbound)
Unset == "<unset>"

Min(a, b) == IF a <= b THEN a ELSE b
Range(s) == {s[i] : i \in DOMAIN s}
IsPrefix(s, t) == Len(s) <= Len(t) /\ SubSeq(t, 1, Len(s)) = s

\* ------------------------------------------------------------- test data
\* What the user can type into st.chat_input.
Questions == {"What is value-based pricing?", "What is a balance sheet?"}

\* Content of a well-formed topics.json (a JSON array of strings).
TopicsJson == <<"All", "Finance", "Marketing", "Strategy">>

\* The indexed corpus.  Distinct chunks may carry the same text.
Contents == <<"pa", "pb", "pc", "pd">>
ChunkTopics(i) ==
    (IF i % 2 = 1 THEN {"Finance"} ELSE {}) \cup (IF i % 3 = 0 THEN {"Marketing"} ELSE {})
Chunk(i) ==
    [id |-> i, page_content |-> Contents[((i - 1) % Len(Contents)) + 1], topics |-> ChunkTopics(i)]
Corpus == {Chunk(i) : i \in 1..NumChunks}

\* Fixed relevance scores of the cross-encoder (a test double), with ties.
Score(query, text) ==
    IF query = "What is value-based pricing?"
    THEN CASE text = "pa" -> 3 [] text = "pb" -> 1 [] text = "pc" -> 3 [] OTHER -> 2
    ELSE CASE text = "pa" -> 1 [] text = "pb" -> 2 [] text = "pc" -> 2 [] OTHER -> 0

\* What the LLM chain can return (opaque text).
GenOutputs == {"answer A", "answer B"}

\* ------------------------------------------------ the reranker (app.py:50-55)
\* ranker.rerank(rerank_request): FlashRank scores every passage against the
\* query and sorts the scored passages by score, descending; Python's sort is
\* stable, so passages of equal score keep their request order.
RECURSIVE InsertByScore(_, _)
InsertByScore(r, sorted) ==
    IF sorted = <<>> THEN <<r>>
    ELSE IF Head(sorted).score >= r.score
         THEN <<Head(sorted)>> \o InsertByScore(r, Tail(sorted))
         ELSE <<r>> \o sorted

RECURSIVE SortByScoreDesc(_)
SortByScoreDesc(scored) ==
    IF scored = <<>> THEN <<>>
    ELSE InsertByScore(scored[Len(scored)], SortByScoreDesc(SubSeq(scored, 1, Len(scored) - 1)))

ranker_rerank(rerank_request) ==
    LET passages == rerank_request.passages
        scored == [i \in 1..Len(passages) |->
                      [text |-> passages[i], score |-> Score(rerank_request.query, passages[i])]]
    IN SortByScoreDesc(scored)

\* [doc.page_content for doc in docs]
page_contents(docs) == [i \in 1..Len(docs) |-> docs[i].page_content]

\* RerankRequest(query=query, passages=passages)
RerankRequest(query, passages) == [query |-> query, passages |-> passages]

\* variants of rerank_docs with a slip in the slice or in the projection
rerank_docs_noslice(query, docs) ==
    LET reranked_results == ranker_rerank(RerankRequest(query, page_contents(docs)))
    IN [i \in 1..Len(reranked_results) |-> reranked_results[i].text]

rerank_docs_first_only(query, docs) ==
    LET reranked_results == ranker_rerank(RerankRequest(query, page_contents(docs)))
    IN [i \in 1..Min(Len(reranked_results), TopN) |-> reranked_results[1].text]

rerank_docs_last_five(query, docs) ==
    LET reranked_results == ranker_rerank(RerankRequest(query, page_contents(docs)))
        n == Len(reranked_results)
        m == Min(n, TopN)
    IN [i \in 1..m |-> reranked_results[n - m + i].text]

rerank_docs(query, docs) ==
    LET passages == page_contents(docs)
        rerank_request == RerankRequest(query, passages)
        reranked_results == ranker_rerank(rerank_request)
    IN [i \in 1..Min(Len(reranked_results), TopN) |-> reranked_results[i].text]

\* ------------------------------------------------- str.join (app.py:127)
\* The joined string, kept as the sequence of its pieces.
RECURSIVE join_trailing(_, _)
join_trailing(sep, parts) ==
    IF parts = <<>> THEN <<>>
    ELSE <<Head(parts), sep>> \o join_trailing(sep, Tail(parts))

RECURSIVE join(_, _)
join(sep, parts) ==
    IF parts = <<>> THEN <<>>
    ELSE IF Len(parts) = 1 THEN <<parts[1]>>
    ELSE <<Head(parts), sep>> \o join(sep, Tail(parts))

\* ------------------------------------------- retrieval (app.py:117-122)
build_search_kwargs_inverted(filter) ==
    IF filter = "All"
    THEN ("k" :> K) @@ ("filter" :> ("topics" :> ("$in" :> <<filter>>)))
    ELSE ("k" :> K)

build_search_kwargs(filter) ==
    IF filter # "All"
    THEN ("k" :> K) @@ ("filter" :> ("topics" :> ("$in" :> <<filter>>)))
    ELSE ("k" :> K)

\* The vector store's reading of search_kwargs: a chunk passes when there is
\* no filter, or when its topics hold one of the values listed under "$in".
Passes(chunk, search_kwargs) ==
    \/ "filter" \notin DOMAIN search_kwargs
    \/ \E v \in Range(search_kwargs["filter"]["topics"]["$in"]) : v \in chunk.topics

\* Results the similarity search may return: at most k passing chunks.  The
\* similarity order is opaque; the model takes the passing chunks by rising
\* or by falling id and returns any prefix of either.
RECURSIVE SeqOfIds(_, _)
SeqOfIds(ids, rising) ==
    IF ids = {} THEN <<>>
    ELSE LET x == IF rising THEN CHOOSE i \in ids : \A j \in ids : i <= j
                  ELSE CHOOSE i \in ids : \A j \in ids : i >= j
         IN <<Chunk(x)>> \o SeqOfIds(ids \ {x}, rising)

RetrievalResults(search_kwargs) ==
    LET ids == {i \in 1..NumChunks : Passes(Chunk(i), search_kwargs)}
    IN {SubSeq(SeqOfIds(ids, rising), 1, n) :
           rising \in BOOLEAN, n \in 0..Min(search_kwargs["k"], Cardinality(ids))}

\* Candidate lists for the reranker taken on its own: every list of distinct
\* chunks of the corpus, in every order.
CandidateLists ==
    UNION {{[i \in 1..n |-> Chunk(f[i])] :
               f \in {g \in [1..n -> 1..NumChunks] : \A a, b \in 1..n : a # b => g[a] # g[b]}} :
           n \in 0..NumChunks}

\* ------------------------------------------------------------------ state
VARIABLES
    secretsPresent,     \* environment: st.secrets holds both API keys
    topicsFile,         \* environment: "present" | "missing" | "malformed"
    messages,           \* st.session_state.messages
    available_filters,  \* options of the sidebar select box (<<>>: never assigned)
    selected_filter,    \* value of the select box (Unset: never assigned)
    user_prompt,        \* what st.chat_input returned in the latest run
    retrieve_calls,     \* calls of retriever.get_relevant_documents in the latest run
    initial_docs,       \* what the retriever returned in the latest run
    rerank_calls,       \* calls of ranker.rerank in the latest run
    generate_calls,     \* calls of generate_answer_chain.invoke in the latest run
    response,           \* the local `response` of the latest run
    runResult,          \* how the latest run ended: "none" | "ok" | "stopped" | "exception"
    failed,             \* the call that raised in the latest run, or "none"
    turns,              \* questions submitted so far
    r_query,            \* reranker taken on its own: the query
    r_docs,             \*   the candidate chunks
    r_results           \*   what each call of rerank_docs returned

vars == <<secretsPresent, topicsFile, messages, available_filters, selected_filter,
          user_prompt, retrieve_calls, initial_docs, rerank_calls, generate_calls,
          response, runResult, failed, turns, r_query, r_docs, r_results>>

env == <<secretsPresent, topicsFile>>
rvars == <<r_query, r_docs, r_results>>

UserMessage(content) == [role |-> "user", content |-> content]
AssistantMessage(content) == [role |-> "assistant", content |-> content]

Init ==
    /\ secretsPresent \in BOOLEAN
    /\ topicsFile \in {"present", "missing", "malformed"}
    /\ messages = <<>>
    /\ available_filters = <<>>
    /\ selected_filter = Unset
    /\ user_prompt = Unset
    /\ retrieve_calls = <<>>
    /\ initial_docs = <<>>
    /\ rerank_calls = <<>>
    /\ generate_calls = <<>>
    /\ response = Unset
    /\ runResult = "none"
    /\ failed = "none"
    /\ turns = 0
    /\ r_query = Unset
    /\ r_docs = <<>>
    /\ r_results = <<>>

\* app.py:89-94  the topic list, with the fallback for a missing file
load_topics == IF topicsFile = "missing" THEN <<"All">> ELSE TopicsJson

\* app.py:127  the context handed to the generator
reranked_context_with_previous(prompt, docs) ==
    join(SEP, rerank_docs(prompt, initial_docs \o docs))

reranked_context(prompt, docs) == join(SEP, rerank_docs(prompt, docs))

\* Locals of a run that stops before the chat input is read.
NoTurn ==
    /\ user_prompt' = Unset
    /\ retrieve_calls' = <<>>
    /\ initial_docs' = <<>>
    /\ rerank_calls' = <<>>
    /\ generate_calls' = <<>>
    /\ response' = Unset

\* app.py:19-26  a secret is missing: st.error, st.stop()
RunMissingSecret ==
    /\ ~secretsPresent
    /\ runResult' = "stopped"
    /\ failed' = "none"
    /\ NoTurn
    /\ UNCHANGED <<env, messages, available_filters, selected_filter, turns, rvars>>

\* app.py:90-91  json.load raises on a malformed file; only FileNotFoundError
\* is caught, so the run ends there.
RunTopicsMalformed ==
    /\ secretsPresent
    /\ topicsFile = "malformed"
    /\ runResult' = "exception"
    /\ failed' = "topics"
    /\ NoTurn
    /\ UNCHANGED <<env, messages, available_filters, selected_filter, turns, rvars>>

\* app.py:19-99  the part of a run every completed sidebar shares
Sidebar(filter) ==
    /\ secretsPresent
    /\ topicsFile # "malformed"
    /\ available_filters' = load_topics
    /\ filter \in Range(load_topics)
    /\ selected_filter' = filter

\* A run without a submitted question (first load, select box changed).
RunNoPrompt(filter) ==
    /\ Sidebar(filter)
    /\ runResult' = "ok"
    /\ failed' = "none"
    /\ NoTurn
    /\ UNCHANGED <<env, messages, turns, rvars>>

\* app.py:109-122  the question is recorded and the retriever is called
Ask(prompt, filter) ==
    /\ Sidebar(filter)
    /\ turns < MaxTurns
    /\ turns' = turns + 1
    /\ user_prompt' = prompt
    /\ retrieve_calls' = <<[query |-> prompt, search_kwargs |-> build_search_kwargs(filter)]>>
    /\ UNCHANGED <<env, rvars>>

\* app.py:122 raises
TurnRetrievalFails(prompt, filter) ==
    /\ Ask(prompt, filter)
    /\ messages' = Append(messages, UserMessage(prompt))
    /\ initial_docs' = <<>>
    /\ rerank_calls' = <<>>
    /\ generate_calls' = <<>>
    /\ response' = Unset
    /\ runResult' = "exception"
    /\ failed' = "retrieval"

\* a variant of the empty branch that still calls the generator
TurnNoResults_generates(prompt, filter) ==
    /\ Ask(prompt, filter)
    /\ initial_docs' = <<>>
    /\ rerank_calls' = <<>>
    /\ \E out \in GenOutputs :
          /\ generate_calls' = <<[question |-> prompt, context |-> <<>>, output |-> out]>>
          /\ response' = out
          /\ messages' = messages \o <<UserMessage(prompt), AssistantMessage(out)>>
    /\ runResult' = "ok"
    /\ failed' = "none"

\* app.py:124-125, 133-135  nothing retrieved
TurnNoResults(prompt, filter) ==
    /\ Ask(prompt, filter)
    /\ initial_docs' = <<>>
    /\ rerank_calls' = <<>>
    /\ generate_calls' = <<>>
    /\ response' = NoResultsMessage
    /\ messages' = messages \o <<UserMessage(prompt), AssistantMessage(NoResultsMessage)>>
    /\ runResult' = "ok"
    /\ failed' = "none"

\* app.py:127  ranker.rerank raises inside rerank_docs
TurnRerankFails(prompt, filter) ==
    /\ Ask(prompt, filter)
    /\ \E docs \in RetrievalResults(build_search_kwargs(filter)) \ {<<>>} :
          /\ initial_docs' = docs
          /\ rerank_calls' = <<RerankRequest(prompt, page_contents(docs))>>
    /\ messages' = Append(messages, UserMessage(prompt))
    /\ generate_calls' = <<>>
    /\ response' = Unset
    /\ runResult' = "exception"
    /\ failed' = "rerank"

\* app.py:128-131  generate_answer_chain.invoke raises
TurnGenerationFails(prompt, filter) ==
    /\ Ask(prompt, filter)
    /\ \E docs \in RetrievalResults(build_search_kwargs(filter)) \ {<<>>} :
          /\ initial_docs' = docs
          /\ rerank_calls' = <<RerankRequest(prompt, page_contents(docs))>>
          /\ generate_calls' = <<[question |-> prompt,
                                  context |-> reranked_context(prompt, docs),
                                  output |-> Unset]>>
    /\ messages' = Append(messages, UserMessage(prompt))
    /\ response' = Unset
    /\ runResult' = "exception"
    /\ failed' = "generation"

\* a variant that rebuilds the transcript from the latest exchange only
TurnAnswered_resets(prompt, filter) ==
    /\ Ask(prompt, filter)
    /\ \E docs \in RetrievalResults(build_search_kwargs(filter)) \ {<<>>}, out \in GenOutputs :
          /\ initial_docs' = docs
          /\ rerank_calls' = <<RerankRequest(prompt, page_contents(docs))>>
          /\ generate_calls' = <<[question |-> prompt,
                                  context |-> reranked_context(prompt, docs),
                                  output |-> out]>>
          /\ response' = out
          /\ messages' = <<UserMessage(prompt), AssistantMessage(out)>>
    /\ runResult' = "ok"
    /\ failed' = "none"

\* app.py:126-135  retrieve, rerank, generate, append the answer
TurnAnswered(prompt, filter) ==
    /\ Ask(prompt, filter)
    /\ \E docs \in RetrievalResults(build_search_kwargs(filter)) \ {<<>>}, out \in GenOutputs :
          /\ initial_docs' = docs
          /\ rerank_calls' = <<RerankRequest(prompt, page_contents(docs))>>
          /\ generate_calls' = <<[question |-> prompt,
                                  context |-> reranked_context(prompt, docs),
                                  output |-> out]>>
          /\ response' = out
          /\ messages' = messages \o <<UserMessage(prompt), AssistantMessage(out)>>
    /\ runResult' = "ok"
    /\ failed' = "none"

Next ==
    \/ RunMissingSecret
    \/ RunTopicsMalformed
    \/ \E filter \in Range(TopicsJson) : RunNoPrompt(filter)
    \/ \E prompt \in Questions, filter \in Range(TopicsJson) : TurnRetrievalFails(prompt, filter)
    \/ \E prompt \in Questions, filter \in Range(TopicsJson) : TurnNoResults(prompt, filter)
    \/ \E prompt \in Questions, filter \in Range(TopicsJson) : TurnRerankFails(prompt, filter)
    \/ \E prompt \in Questions, filter \in Range(TopicsJson) : TurnGenerationFails(prompt, filter)
    \/ \E prompt \in Questions, filter \in Range(TopicsJson) : TurnAnswered(prompt, filter)

Spec == Init /\ [][Next]_vars

\* ------------------------------------- rerank_docs taken on its own
InitRerank ==
    /\ secretsPresent = TRUE
    /\ topicsFile = "present"
    /\ messages = <<>>
    /\ available_filters = <<>>
    /\ selected_filter = Unset
    /\ user_prompt = Unset
    /\ retrieve_calls = <<>>
    /\ initial_docs = <<>>
    /\ rerank_calls = <<>>
    /\ generate_calls = <<>>
    /\ response = Unset
    /\ runResult = "none"
    /\ failed = "none"
    /\ turns = 0
    /\ r_query \in Questions
    /\ r_docs \in CandidateLists
    /\ r_results = <<>>

CallRerankDocs ==
    /\ Len(r_results) < MaxCalls
    /\ r_results' = Append(r_results, rerank_docs(r_query, r_docs))
    /\ UNCHANGED <<env, messages, available_filters, selected_filter, user_prompt,
                   retrieve_calls, initial_docs, rerank_calls, generate_calls, response,
                   runResult, failed, turns, r_query, r_docs>>

NextRerank == CallRerankDocs

SpecRerank == InitRerank /\ [][NextRerank]_vars

\* ----------------------------------------------------------- properties
Count(t, s) == Cardinality({j \in DOMAIN s : s[j] = t})

\* a question was submitted in the latest run and every backend call returned
TurnCompleted == user_prompt # Unset /\ failed = "none"

\* C1: whenever the retriever returns no chunk, whatever the selected topic,
\* the turn's response is exactly the fixed "could not find" message, it is
\* what the transcript receives, and neither the ranker nor the generator was
\* called in that turn.
C1_EmptyRetrievalShortCircuits ==
    (user_prompt # Unset /\ failed # "retrieval" /\ initial_docs = <<>>) =>
        /\ response = "I could not find relevant information for that specific topic. Please try another search or select 'All' from the dropdown."
        /\ rerank_calls = <<>>
        /\ generate_calls = <<>>
        /\ runResult = "ok"
        /\ messages[Len(messages)] = AssistantMessage(response)

C1_Witness ==
    /\ user_prompt # Unset
    /\ failed = "none"
    /\ selected_filter = "Finance"
    /\ Len(retrieve_calls) = 1
    /\ initial_docs = <<>>
    /\ response = NoResultsMessage

\* C2: a turn in which the retriever, the ranker or the generator raised
\* still ends normally with a text response (the failure was caught and
\* turned into text), and the transcript of before the turn is kept.
C2_BackendFailureIsCaught ==
    failed \in {"retrieval", "rerank", "generation"} =>
        /\ runResult = "ok"
        /\ response # Unset

\* C3: every retrieval request of a turn asks for k = 25; with "All" selected
\* it has no filter entry; with any other value it has the filter
\* topics $in [that value], which passes exactly the chunks whose topics
\* contain the value.
C3_RetrievalRequest ==
    /\ user_prompt # Unset => Len(retrieve_calls) = 1
    /\ \A i \in DOMAIN retrieve_calls :
          LET kw == retrieve_calls[i].search_kwargs
          IN /\ kw["k"] = 25
             /\ selected_filter = "All" =>
                   /\ DOMAIN kw = {"k"}
                   /\ \A c \in Corpus : Passes(c, kw)
             /\ selected_filter # "All" =>
                   /\ DOMAIN kw = {"k", "filter"}
                   /\ kw["filter"] = ("topics" :> ("$in" :> <<selected_filter>>))
                   /\ \A c \in Corpus : Passes(c, kw) <=> selected_filter \in c.topics

C3_Witness ==
    /\ Len(retrieve_calls) = 1
    /\ selected_filter = "Marketing"
    /\ Len(initial_docs) = 2
    /\ runResult = "ok"

\* C4: in a turn whose retrieval returned n > 0 chunks (n <= 25) the ranker
\* is called once, with exactly the n chunk contents; once the ranker has
\* returned, the generator is called once, with the turn's question and with
\* the reranked passages interleaved with the separator (none leading, none
\* trailing); once the generator has returned, its output is the turn's
\* response, the one appended to the transcript.
C4_RerankThenGenerateOnce ==
    (user_prompt # Unset /\ initial_docs # <<>>) =>
        LET n == Len(initial_docs)
            passages == rerank_docs(user_prompt, initial_docs)
            m == Len(passages)
        IN /\ n <= 25
           /\ Len(rerank_calls) = 1
           /\ rerank_calls[1].query = user_prompt
           /\ Len(rerank_calls[1].passages) = n
           /\ \A i \in 1..n : rerank_calls[1].passages[i] = initial_docs[i].page_content
           /\ failed = "rerank" => generate_calls = <<>>
           /\ failed # "rerank" =>
                 /\ Len(generate_calls) = 1
                 /\ generate_calls[1].question = user_prompt
                 /\ Len(generate_calls[1].context) = 2 * m - 1
                 /\ \A i \in 1..m : generate_calls[1].context[2 * i - 1] = passages[i]
                 /\ \A i \in 1..(m - 1) : generate_calls[1].context[2 * i] = "\n\n---\n\n"
           /\ failed = "none" =>
                 /\ response = generate_calls[1].output
                 /\ response \in GenOutputs
                 /\ runResult = "ok"
                 /\ messages[Len(messages)] = AssistantMessage(response)
                 /\ messages[Len(messages) - 1] = UserMessage(user_prompt)

C4_Witness ==
    /\ TurnCompleted
    /\ user_prompt = "What is value-based pricing?"
    /\ selected_filter = "All"
    /\ Len(initial_docs) = NumChunks
    /\ Len(generate_calls) = 1
    /\ response \in GenOutputs

RankOf(i) ==
    1 + Cardinality({j \in DOMAIN r_docs :
            \/ Score(r_query, r_docs[j].page_content) > Score(r_query, r_docs[i].page_content)
            \/ /\ Score(r_query, r_docs[j].page_content) = Score(r_query, r_docs[i].page_content)
               /\ j < i})

C8_NoCrossTurnLeak ==
    /\ user_prompt # Unset =>
          \E i \in DOMAIN messages :
              /\ messages[i] = UserMessage(user_prompt)
              /\ \A j \in DOMAIN messages : j > i => messages[j].role = "assistant"
    /\ \A i \in DOMAIN retrieve_calls : retrieve_calls[i].query = user_prompt
    /\ \A i \in DOMAIN rerank_calls :
          /\ rerank_calls[i].query = user_prompt
          /\ rerank_calls[i].passages = page_contents(initial_docs)
    /\ \A i \in DOMAIN generate_calls :
          LET ctx == generate_calls[i].context
          IN /\ generate_calls[i].question = user_prompt
             /\ \A p \in DOMAIN ctx :
                   ctx[p] # SEP =>
                       /\ Count(ctx[p], page_contents(initial_docs)) >= 1
                       /\ Count(ctx[p], ctx) <= Count(ctx[p], page_contents(initial_docs))

C8_Witness ==
    /\ turns = 2
    /\ Len(messages) = 4
    /\ messages[1].content # user_prompt
    /\ Len(generate_calls) = 1
    /\ runResult = "ok"

\* C9: every step leaves the old transcript as a prefix of the new one; what a
\* turn adds is the user's question, followed by the assistant's response to
\* it when the turn produced one.
C9_TranscriptAppendOnly ==
    [][/\ IsPrefix(messages, messages')
       /\ LET added == SubSeq(messages', Len(messages) + 1, Len(messages'))
          IN \/ added = <<>>
             \/ added = <<UserMessage(user_prompt')>> /\ response' = Unset
             \/ added = <<UserMessage(user_prompt'), AssistantMessage(response')>>]_vars

C9_Witness ==
    /\ Len(messages) = 4
    /\ runResult = "ok"
    /\ user_prompt # Unset
    /\ messages[4] = AssistantMessage(response)

\* C10: with the topic file missing or malformed, a run still completes and
\* the select box offers exactly <<"All">>.
C10_TopicFallback ==
    (secretsPresent /\ topicsFile \in {"missing", "malformed"} /\ runResult # "none") =>
        /\ runResult = "ok"
        /\ available_filters = <<"All">>

====
